---- MODULE Spec2Model ----
(***************************************************************************)
(* A model of src/main.py: the five-stage CSV pipeline (upload raw, fetch  *)
(* raw, preprocess, upload clean, bulk load), its date normaliser, its CSV *)
(* preprocessor and its table creation.                                    *)
(*                                                                         *)
(* Text is modelled as sequences of one-character strings, so that the     *)
(* parsing and the formatting the program does are computed, not assumed.  *)
(* A value handled by the program (a cell of a data frame, a field of a    *)
(* table row) is a record [t, s, n, e]: t is the kind ("str", "nan",       *)
(* "none", "int", "float", "null", "num", "date"), s the text of a string, *)
(* n an integer (or the mantissa of a decimal, or a packed date) and e the *)
(* number of decimals.                                                     *)
(***************************************************************************)
EXTENDS Integers, Sequences, FiniteSets, TLC

VARIABLES
    pc,          \* position of the process: module import, main(), exit
    started,     \* the pipeline stages started so far, in order
    errors,      \* which functions have logged an error (logging.error)
    fs,          \* local file system: path -> file or Absent
    s3,          \* the bucket: key -> object or Absent
    dbTable,     \* committed state of your_table
    work,        \* your_table as the connection's open transaction sees it
    txn,         \* transaction state of the connection
    conn,        \* "none", "open", "closed"
    cursor,      \* "none", "open", "closed"
    dbLog,       \* what happened on the connection, in order
    exitCode,    \* -1 while running, then the exit status of the process
    env,         \* the run's surroundings: whether the server rejects CREATE
                 \* TABLE, and your_table as the run found it
    calls,       \* number of create_table_if_not_exists calls made
    dateIn,      \* argument of convert_date_string
    dateOut      \* its outcome

vars == <<pc, started, errors, fs, s3, dbTable, work, txn, conn, cursor,
          dbLog, exitCode, env, calls, dateIn, dateOut>>

-----------------------------------------------------------------------------
(* Values *)

Str(s) == [t |-> "str", s |-> s, n |-> 0, e |-> 0]
\* float('nan'): what pandas holds for a missing cell
NaN == [t |-> "nan", s |-> <<>>, n |-> 0, e |-> 0]
\* Python's None
None == [t |-> "none", s |-> <<>>, n |-> 0, e |-> 0]
\* a Python int (an int64 cell)
IntV(k) == [t |-> "int", s |-> <<>>, n |-> k, e |-> 0]
\* a Python float (a float64 cell) of value m / 10^d, m not a multiple of 10
\* unless d = 0
FloatV(m, d) == [t |-> "float", s |-> <<>>, n |-> m, e |-> d]

DigitChars == <<"0", "1", "2", "3", "4", "5", "6", "7", "8", "9">>
IsDigit(c) == \E k \in 1..10 : DigitChars[k] = c
DigitVal(c) == (CHOOSE k \in 1..10 : DigitChars[k] = c) - 1
Dig(k) == DigitChars[k + 1]
\* "%02d"
Two(k) == <<Dig((k \div 10) % 10), Dig(k % 10)>>
\* "%04d"
Four(k) == <<Dig((k \div 1000) % 10), Dig((k \div 100) % 10)>> \o Two(k)

-----------------------------------------------------------------------------
(* datetime.strptime(date_str, '%d-%m-%y') and strftime('%Y-%m-%d') *)

\* %d: 3[0-1]|[1-2]\d|0[1-9]|[1-9]| [1-9]
MatchDay(s) ==
    \/ /\ Len(s) = 2
       /\ \/ s[1] = "3" /\ s[2] \in {"0", "1"}
          \/ s[1] \in {"1", "2"} /\ IsDigit(s[2])
          \/ s[1] = "0" /\ IsDigit(s[2]) /\ s[2] # "0"
          \/ s[1] = " " /\ IsDigit(s[2]) /\ s[2] # "0"
    \/ Len(s) = 1 /\ IsDigit(s[1]) /\ s[1] # "0"

\* %m: 1[0-2]|0[1-9]|[1-9]
MatchMonth(s) ==
    \/ /\ Len(s) = 2
       /\ \/ s[1] = "1" /\ s[2] \in {"0", "1", "2"}
          \/ s[1] = "0" /\ IsDigit(s[2]) /\ s[2] # "0"
    \/ Len(s) = 1 /\ IsDigit(s[1]) /\ s[1] # "0"

\* %y: \d\d
MatchYear(s) == Len(s) = 2 /\ IsDigit(s[1]) /\ IsDigit(s[2])

\* int() of a matched field (int(" 5") = 5)
FieldInt(s) ==
    IF Len(s) = 1 THEN DigitVal(s[1])
    ELSE (IF s[1] = " " THEN 0 ELSE 10 * DigitVal(s[1])) + DigitVal(s[2])

\* The ways the format's regular expression matches a prefix of s: the
\* lengths of the day and month fields. At most one way matches.
StrptimeSplits(s) ==
    {dm \in {1, 2} \X {1, 2} :
        /\ Len(s) >= dm[1] + dm[2] + 4
        /\ MatchDay(SubSeq(s, 1, dm[1]))
        /\ s[dm[1] + 1] = "-"
        /\ MatchMonth(SubSeq(s, dm[1] + 2, dm[1] + dm[2] + 1))
        /\ s[dm[1] + dm[2] + 2] = "-"
        /\ MatchYear(SubSeq(s, dm[1] + dm[2] + 3, dm[1] + dm[2] + 4))}

\* _strptime: a two-digit year up to 68 is in the 2000s, from 69 in the 1900s
PivotYear == 68
\* The mutant: every two-digit year is taken to be in the 1900s.
ExpandYearCentury19(yy) == 1900 + yy
ExpandYear(yy) == IF yy <= PivotYear THEN 2000 + yy ELSE 1900 + yy

IsLeap(y) == y % 4 = 0 /\ (y % 100 # 0 \/ y % 400 = 0)
DaysInMonth(y, m) ==
    IF m = 2 THEN (IF IsLeap(y) THEN 29 ELSE 28)
    ELSE IF m \in {4, 6, 9, 11} THEN 30 ELSE 31

DateObj(y, m, d) == [ok |-> TRUE, exc |-> "", y |-> y, m |-> m, d |-> d]
Raise(kind) == [ok |-> FALSE, exc |-> kind, y |-> 0, m |-> 0, d |-> 0]

\* datetime.strptime(v, '%d-%m-%y'): a date, or the exception raised
Strptime(v) ==
    IF v.t # "str" THEN Raise("TypeError")
    ELSE IF StrptimeSplits(v.s) = {} THEN Raise("ValueError")
    ELSE LET dm == CHOOSE x \in StrptimeSplits(v.s) : TRUE
             s == v.s
             d == FieldInt(SubSeq(s, 1, dm[1]))
             m == FieldInt(SubSeq(s, dm[1] + 2, dm[1] + dm[2] + 1))
             y == ExpandYear(FieldInt(SubSeq(s, dm[1] + dm[2] + 3, dm[1] + dm[2] + 4)))
         IN  \* "unconverted data remains"
             IF Len(s) # dm[1] + dm[2] + 4 THEN Raise("ValueError")
             \* "day is out of range for month"
             ELSE IF d > DaysInMonth(y, m) THEN Raise("ValueError")
             ELSE DateObj(y, m, d)

\* date_obj.strftime('%Y-%m-%d')
Strftime(o) == Four(o.y) \o <<"-">> \o Two(o.m) \o <<"-">> \o Two(o.d)

\* The outcome of a call: the value returned, whether an exception left the
\* function, and whether an error was logged.
Returned(v, logged) == [val |-> v, raised |-> FALSE, logged |-> logged]
Propagated == [val |-> None, raised |-> TRUE, logged |-> FALSE]

\* The mutant: only ValueError is caught.
convert_date_string_value_error_only(date_str) ==
    LET o == Strptime(date_str)
    IN  IF o.ok THEN Returned(Str(Strftime(o)), FALSE)
        ELSE IF o.exc = "ValueError" THEN Returned(None, TRUE)
        ELSE Propagated

convert_date_string(date_str) ==
    LET o == Strptime(date_str)
    IN  IF o.ok THEN Returned(Str(Strftime(o)), FALSE)
        ELSE Returned(None, TRUE)

-----------------------------------------------------------------------------
(* Files. A CSV file is its header (the column names) and its data rows,   *)
(* each row a sequence of cells, each cell the text between two commas.    *)
(* The files of the model are rectangular and their cells hold no comma,   *)
(* quote or line break, so the tokenising of a line is not modelled.       *)

Absent == [exists |-> FALSE, header |-> <<>>, rows |-> <<>>]
File(h, r) == [exists |-> TRUE, header |-> h, rows |-> r]

Header == <<"User ID", "Subscription Type", "Monthly Revenue", "Join Date",
            "Last Payment Date", "Country", "Age", "Gender", "Device",
            "Plan Duration">>

\* position of a column name in a header, 0 when it is not there
ColIndex(h, name) ==
    IF \E j \in 1..Len(h) : h[j] = name
    THEN CHOOSE j \in 1..Len(h) : h[j] = name
    ELSE 0

-----------------------------------------------------------------------------
(* pd.read_csv and DataFrame.to_csv, with their default arguments *)

\* the default na_values of read_csv
NAStrings ==
    { <<>>,
      <<"N", "A">>, <<"N", "/", "A">>, <<"n", "/", "a">>,
      <<"N", "a", "N">>, <<"n", "a", "n">>, <<"-", "N", "a", "N">>,
      <<"-", "n", "a", "n">>, <<"N", "U", "L", "L">>, <<"n", "u", "l", "l">>,
      <<"N", "o", "n", "e">>, <<"<", "N", "A", ">">>, <<"#", "N", "A">>,
      <<"#", "N", "/", "A">>,
      <<"#", "N", "/", "A", " ", "N", "/", "A">>,
      <<"1", ".", "#", "I", "N", "D">>, <<"-", "1", ".", "#", "I", "N", "D">>,
      <<"1", ".", "#", "Q", "N", "A", "N">>,
      <<"-", "1", ".", "#", "Q", "N", "A", "N">> }
IsNA(cell) == cell \in NAStrings

AllDigits(s) == Len(s) >= 1 /\ \A i \in 1..Len(s) : IsDigit(s[i])
HasSign(s) == Len(s) >= 1 /\ s[1] \in {"-", "+"}
Unsigned(s) == IF HasSign(s) THEN Tail(s) ELSE s
\* [+-]digits
IsIntText(s) == AllDigits(Unsigned(s))
\* [+-]digits, or [+-]digits.digits
IsDecText(s) ==
    LET u == Unsigned(s)
    IN  \/ AllDigits(u)
        \/ \E k \in 2..(Len(u) - 1) :
              /\ u[k] = "."
              /\ AllDigits(SubSeq(u, 1, k - 1))
              /\ AllDigits(SubSeq(u, k + 1, Len(u)))

RECURSIVE DigitsVal(_)
DigitsVal(s) ==
    IF s = <<>> THEN 0
    ELSE 10 * DigitsVal(SubSeq(s, 1, Len(s) - 1)) + DigitVal(s[Len(s)])

IntOf(s) ==
    IF HasSign(s) /\ s[1] = "-" THEN 0 - DigitsVal(Tail(s)) ELSE DigitsVal(Unsigned(s))

\* a decimal m / 10^d without trailing zeros in its fraction
RECURSIVE Normalise(_, _)
Normalise(m, d) ==
    IF d > 0 /\ m % 10 = 0 THEN Normalise(m \div 10, d - 1)
    ELSE [m |-> m, d |-> d]

DecOf(s) ==
    LET u == Unsigned(s)
        dots == {k \in 1..Len(u) : u[k] = "."}
        k == IF dots = {} THEN Len(u) + 1 ELSE CHOOSE x \in dots : TRUE
        digits == SubSeq(u, 1, k - 1) \o SubSeq(u, k + 1, Len(u))
        mag == Normalise(DigitsVal(digits), IF dots = {} THEN 0 ELSE Len(u) - k)
    IN  [m |-> IF HasSign(s) /\ s[1] = "-" THEN 0 - mag.m ELSE mag.m, d |-> mag.d]

\* the dtype read_csv infers for column j of a file
ColType(f, j) ==
    LET cells == {f.rows[i][j] : i \in 1..Len(f.rows)}
        given == {c \in cells : ~IsNA(c)}
    IN  IF cells = {} THEN "object"
        ELSE IF given = cells /\ \A c \in cells : IsIntText(c) THEN "int64"
        ELSE IF \A c \in given : IsDecText(c) THEN "float64"
        ELSE "object"

\* the value of row i, column j of pd.read_csv(f)
ReadCell(f, i, j) ==
    LET c == f.rows[i][j]
        ty == ColType(f, j)
    IN  IF IsNA(c) THEN NaN
        ELSE IF ty = "int64" THEN IntV(IntOf(c))
        ELSE IF ty = "float64" THEN FloatV(DecOf(c).m, DecOf(c).d)
        ELSE Str(c)

\* pd.read_csv(f) of a file that exists: the data frame
read_csv(f) ==
    [columns |-> f.header,
     data |-> [i \in 1..Len(f.rows) |->
                  [j \in 1..Len(f.header) |-> ReadCell(f, i, j)]]]

RECURSIVE NatText(_)
NatText(k) == IF k < 10 THEN <<Dig(k)>> ELSE NatText(k \div 10) \o <<Dig(k % 10)>>
IntText(k) == IF k < 0 THEN <<"-">> \o NatText(0 - k) ELSE NatText(k)

RECURSIVE Pow10(_)
Pow10(d) == IF d = 0 THEN 1 ELSE 10 * Pow10(d - 1)

\* the last d digits of k, zero padded
RECURSIVE FracText(_, _)
FracText(k, d) == IF d = 0 THEN <<>> ELSE FracText(k \div 10, d - 1) \o <<Dig(k % 10)>>

\* repr() of a float of value m / 10^d
FloatText(m, d) ==
    LET a == IF m < 0 THEN 0 - m ELSE m
        sign == IF m < 0 THEN <<"-">> ELSE <<>>
    IN  sign \o NatText(a \div Pow10(d)) \o <<".">>
             \o (IF d = 0 THEN <<"0">> ELSE FracText(a % Pow10(d), d))

\* the text to_csv writes for a value (na_rep = '')
CellText(v) ==
    IF v.t = "str" THEN v.s
    ELSE IF v.t = "int" THEN IntText(v.n)
    ELSE IF v.t = "float" THEN FloatText(v.n, v.e)
    ELSE <<>>

\* df.to_csv(output_file, index=False)
to_csv(df) ==
    File(df.columns,
         [i \in 1..Len(df.data) |->
             [j \in 1..Len(df.columns) |-> CellText(df.data[i][j])]])

-----------------------------------------------------------------------------
(* preprocess_csv *)

\* df[name] = df[name].apply(lambda x: convert_date_string(x))
ApplyConvert(df, name) ==
    LET j == ColIndex(df.columns, name)
    IN  [columns |-> df.columns,
         data |-> [i \in 1..Len(df.data) |->
                      [k \in 1..Len(df.columns) |->
                          IF k = j THEN convert_date_string(df.data[i][k]).val
                          ELSE df.data[i][k]]]]

\* the errors convert_date_string logs while a column is converted, and
\* whether one of its calls let an exception out
RECURSIVE ConvertLog(_, _, _)
ConvertLog(df, j, i) ==
    IF i > Len(df.data) THEN <<>>
    ELSE (IF convert_date_string(df.data[i][j]).logged
          THEN <<"convert_date_string">> ELSE <<>>) \o ConvertLog(df, j, i + 1)
ConvertRaises(df, j) ==
    \E i \in 1..Len(df.data) : convert_date_string(df.data[i][j]).raised

\* The outcome of preprocess_csv(input_file, output_file): the output file
\* afterwards (out is what was there before) and the errors logged.
preprocess_csv(in, out) ==
    LET df == read_csv(in)
        jj == ColIndex(in.header, "Join Date")
        jl == ColIndex(in.header, "Last Payment Date")
        df1 == ApplyConvert(df, "Join Date")
        df2 == ApplyConvert(df1, "Last Payment Date")
        failed(log) == [file |-> out, log |-> log \o <<"preprocess_csv">>]
    IN  \* FileNotFoundError
        IF ~in.exists THEN failed(<<>>)
        \* KeyError: 'Join Date'
        ELSE IF jj = 0 THEN failed(<<>>)
        ELSE IF ConvertRaises(df, jj) THEN failed(ConvertLog(df, jj, 1))
        \* KeyError: 'Last Payment Date'
        ELSE IF jl = 0 THEN failed(ConvertLog(df, jj, 1))
        ELSE IF ConvertRaises(df1, jl)
             THEN failed(ConvertLog(df, jj, 1) \o ConvertLog(df1, jl, 1))
        ELSE [file |-> to_csv(df2),
              log |-> ConvertLog(df, jj, 1) \o ConvertLog(df1, jl, 1)]

-----------------------------------------------------------------------------
(* The input files of the model *)

\* 1,Basic,9.99,01-01-22,15-01-22,US,34,M,Mobile,Monthly
RowExample ==
    << <<"1">>,
       <<"B", "a", "s", "i", "c">>,
       <<"9", ".", "9", "9">>,
       <<"0", "1", "-", "0", "1", "-", "2", "2">>,
       <<"1", "5", "-", "0", "1", "-", "2", "2">>,
       <<"U", "S">>,
       <<"3", "4">>,
       <<"M">>,
       <<"M", "o", "b", "i", "l", "e">>,
       <<"M", "o", "n", "t", "h", "l", "y">> >>

\* 2,Premium,15.5,29-02-00,31-12-69,NA,28,F,Tablet,Annual
RowNamibia ==
    << <<"2">>,
       <<"P", "r", "e", "m", "i", "u", "m">>,
       <<"1", "5", ".", "5">>,
       <<"2", "9", "-", "0", "2", "-", "0", "0">>,
       <<"3", "1", "-", "1", "2", "-", "6", "9">>,
       <<"N", "A">>,
       <<"2", "8">>,
       <<"F">>,
       <<"T", "a", "b", "l", "e", "t">>,
       <<"A", "n", "n", "u", "a", "l">> >>

\* 3,Basic,9.90,2021/03/05,32-13-99,IN,,F,TV,Monthly
RowBadDates ==
    << <<"3">>,
       <<"B", "a", "s", "i", "c">>,
       <<"9", ".", "9", "0">>,
       <<"2", "0", "2", "1", "/", "0", "3", "/", "0", "5">>,
       <<"3", "2", "-", "1", "3", "-", "9", "9">>,
       <<"I", "N">>,
       <<>>,
       <<"F">>,
       <<"T", "V">>,
       <<"M", "o", "n", "t", "h", "l", "y">> >>

\* x4,Basic,12,5-3-21,05-03-21,UK,41,M,Mobile,Monthly
RowBadId ==
    << <<"x", "4">>,
       <<"B", "a", "s", "i", "c">>,
       <<"1", "2">>,
       <<"5", "-", "3", "-", "2", "1">>,
       <<"0", "5", "-", "0", "3", "-", "2", "1">>,
       <<"U", "K">>,
       <<"4", "1">>,
       <<"M">>,
       <<"M", "o", "b", "i", "l", "e">>,
       <<"M", "o", "n", "t", "h", "l", "y">> >>

\* 9,Basic,9.99,01-01-20,01-02-20,US,50,M,TV,Monthly
RowStaleRaw ==
    << <<"9">>,
       <<"B", "a", "s", "i", "c">>,
       <<"9", ".", "9", "9">>,
       <<"0", "1", "-", "0", "1", "-", "2", "0">>,
       <<"0", "1", "-", "0", "2", "-", "2", "0">>,
       <<"U", "S">>,
       <<"5", "0">>,
       <<"M">>,
       <<"T", "V">>,
       <<"M", "o", "n", "t", "h", "l", "y">> >>

\* 9,Basic,9.99,2020-01-01,2020-02-01,US,50,M,TV,Monthly
RowStaleClean ==
    << <<"9">>,
       <<"B", "a", "s", "i", "c">>,
       <<"9", ".", "9", "9">>,
       <<"2", "0", "2", "0", "-", "0", "1", "-", "0", "1">>,
       <<"2", "0", "2", "0", "-", "0", "2", "-", "0", "1">>,
       <<"U", "S">>,
       <<"5", "0">>,
       <<"M">>,
       <<"T", "V">>,
       <<"M", "o", "n", "t", "h", "l", "y">> >>

\* the data rows an input file is made of
RowPool == {RowExample, RowNamibia, RowBadDates, RowBadId}

\* the longest input file, in data rows
MaxRows == 2

RECURSIVE SeqsUpTo(_, _)
SeqsUpTo(S, n) ==
    IF n = 0 THEN {<<>>}
    ELSE LET shorter == SeqsUpTo(S, n - 1)
         IN  shorter \cup {Append(q, x) : q \in {r \in shorter : Len(r) = n - 1}, x \in S}

\* data/input.csv: any file of up to MaxRows rows of the pool, a file without
\* the date columns, or no file
InputFiles ==
    {File(Header, r) : r \in SeqsUpTo(RowPool, MaxRows)}
        \cup {File(<<"User ID", "Country">>, << <<<<"1">>, <<"U", "S">>>> >>), Absent}

\* what an earlier run of the program left behind
StaleRaw == File(Header, <<RowStaleRaw>>)
StaleClean == File(Header, <<RowStaleClean>>)

-----------------------------------------------------------------------------
(* The database: your_table, and COPY your_table FROM stdin WITH CSV HEADER *)

\* SQL NULL
Null == [t |-> "null", s |-> <<>>, n |-> 0, e |-> 0]
\* a NUMERIC of value m / 10^d
NumV(m, d) == [t |-> "num", s |-> <<>>, n |-> m, e |-> d]
\* a DATE
DateV(y, m, d) == [t |-> "date", s |-> <<>>, n |-> (y * 10000) + (m * 100) + d, e |-> 0]
\* a field COPY rejects
Rejected == [t |-> "rejected", s |-> <<>>, n |-> 0, e |-> 0]

\* the ten columns of CREATE TABLE, in order: the type and, for VARCHAR, the
\* length
Columns ==
    << [ty |-> "INTEGER", len |-> 0], [ty |-> "VARCHAR", len |-> 50],
       [ty |-> "NUMERIC", len |-> 0], [ty |-> "DATE", len |-> 0],
       [ty |-> "DATE", len |-> 0], [ty |-> "VARCHAR", len |-> 50],
       [ty |-> "INTEGER", len |-> 0], [ty |-> "VARCHAR", len |-> 10],
       [ty |-> "VARCHAR", len |-> 50], [ty |-> "VARCHAR", len |-> 20] >>

\* your_table: absent, the table of CREATE TABLE ("fixed"), or a table of
\* that name with another definition ("other": here a single INTEGER column)
NoTable == [kind |-> "absent", rows |-> <<>>]
Table(rows) == [kind |-> "fixed", rows |-> rows]
OtherTable == [kind |-> "other", rows |-> <<>>]

\* yyyy-mm-dd, the form preprocess_csv writes
IsIsoDate(s) ==
    /\ Len(s) = 10
    /\ s[5] = "-" /\ s[8] = "-"
    /\ \A i \in {1, 2, 3, 4, 6, 7, 9, 10} : IsDigit(s[i])
    /\ DigitsVal(SubSeq(s, 6, 7)) \in 1..12
    /\ DigitsVal(SubSeq(s, 9, 10)) \in
          1..DaysInMonth(DigitsVal(SubSeq(s, 1, 4)), DigitsVal(SubSeq(s, 6, 7)))

Int4Max == 2147483647

\* the value COPY stores for a cell in a column; an unquoted empty cell is
\* NULL. Of the date forms the server reads, only the one preprocess_csv
\* writes is modelled.
CopyField(col, cell) ==
    IF cell = <<>> THEN Null
    ELSE IF col.ty = "INTEGER"
         THEN IF IsIntText(cell) /\ IntOf(cell) <= Int4Max /\ IntOf(cell) >= 0 - Int4Max - 1
              THEN IntV(IntOf(cell)) ELSE Rejected
    ELSE IF col.ty = "NUMERIC"
         THEN IF IsDecText(cell) THEN NumV(DecOf(cell).m, DecOf(cell).d) ELSE Rejected
    ELSE IF col.ty = "DATE"
         THEN IF IsIsoDate(cell)
              THEN DateV(DigitsVal(SubSeq(cell, 1, 4)), DigitsVal(SubSeq(cell, 6, 7)),
                         DigitsVal(SubSeq(cell, 9, 10)))
              ELSE Rejected
    ELSE \* VARCHAR(n): longer text is an error unless the excess is spaces
         IF Len(cell) <= col.len THEN Str(cell)
         ELSE IF \A i \in (col.len + 1)..Len(cell) : cell[i] = " "
              THEN Str(SubSeq(cell, 1, col.len)) ELSE Rejected

CopyRow(row) ==
    [j \in 1..Len(Columns) |-> CopyField(Columns[j], row[j])]

\* whether COPY takes every data row of the file into the table: the header
\* line is skipped, not compared
CopyAccepts(tbl, f) ==
    /\ tbl.kind # "absent"
    /\ \A i \in 1..Len(f.rows) :
          /\ tbl.kind = "fixed"
          /\ Len(f.rows[i]) = Len(Columns)
          /\ \A j \in 1..Len(Columns) : CopyField(Columns[j], f.rows[i][j]) # Rejected

\* the table after a COPY that succeeded
CopyInto(tbl, f) ==
    [kind |-> tbl.kind,
     rows |-> tbl.rows \o [i \in 1..Len(f.rows) |-> CopyRow(f.rows[i])]]

-----------------------------------------------------------------------------
(* The connection: psycopg2 with its default of one open transaction per   *)
(* connection, begun by the first statement and ended by commit().         *)

\* the state the database functions read and change
DB == [dbTable |-> dbTable, work |-> work, txn |-> txn, conn |-> conn,
       cursor |-> cursor, dbLog |-> dbLog, errors |-> errors]

Install(db) ==
    /\ dbTable' = db.dbTable
    /\ work' = db.work
    /\ txn' = db.txn
    /\ conn' = db.conn
    /\ cursor' = db.cursor
    /\ dbLog' = db.dbLog
    /\ errors' = db.errors

Logged(db, event) == [db EXCEPT !.dbLog = Append(@, event)]
Failed(db, who) == [db EXCEPT !.errors = Append(@, who)]

\* a statement can run: the connection is open and its transaction has not
\* failed (InterfaceError, InFailedSqlTransaction otherwise)
CanRun(db) == db.conn = "open" /\ db.cursor = "open" /\ db.txn # "aborted"

\* the first statement after a commit begins a transaction
Begun(db) ==
    IF db.txn = "idle" THEN [db EXCEPT !.txn = "active", !.work = db.dbTable] ELSE db

\* a statement the server rejects leaves the transaction failed
Aborted(db) == [db EXCEPT !.txn = "aborted"]

\* conn.commit()
Commit(db) ==
    LET d == Logged(db, "commit")
    IN  IF d.txn = "active" THEN [d EXCEPT !.dbTable = d.work, !.txn = "idle"]
        ELSE [d EXCEPT !.work = d.dbTable, !.txn = "idle"]

\* cursor.close(); conn.close(): what was not committed is discarded. Neither
\* raises: closing a client-side cursor sends nothing to the server, and
\* closing a connection only drops it.
Close(db) ==
    [Logged(Logged(db, "cursor_close"), "conn_close")
        EXCEPT !.cursor = "closed", !.conn = "closed", !.txn = "idle",
               !.work = db.dbTable]

\* CREATE TABLE IF NOT EXISTS your_table (...)
CreateIfNotExists(tbl) == IF tbl.kind = "absent" THEN Table(<<>>) ELSE tbl

\* The mutant: CREATE TABLE without IF NOT EXISTS, an error when the table
\* is there.
create_table_plain(db, denied) ==
    LET d == Logged(db, "execute")
    IN  IF ~CanRun(d) THEN Failed(d, "create_table_if_not_exists")
        ELSE IF denied \/ Begun(d).work.kind # "absent"
             THEN Failed(Aborted(Begun(d)), "create_table_if_not_exists")
        ELSE Commit([Begun(d) EXCEPT !.work = Table(<<>>)])

\* create_table_if_not_exists(conn, cursor); denied: the server rejects the
\* statement (the role may not create tables)
create_table_if_not_exists(db, denied) ==
    LET d == Logged(db, "execute")
    IN  IF ~CanRun(d) THEN Failed(d, "create_table_if_not_exists")
        ELSE IF denied THEN Failed(Aborted(Begun(d)), "create_table_if_not_exists")
        ELSE Commit([Begun(d) EXCEPT !.work = CreateIfNotExists(Begun(d).work)])

\* cursor.copy_expert(...) of the bulk load, then conn.commit(); lost: the
\* server or the network fails during the copy. The result names whether an
\* exception was raised.
CopyAndCommit(db, f, lost) ==
    IF ~f.exists THEN [db |-> db, raised |-> TRUE]
    ELSE LET d == Logged(db, "copy")
         IN  IF ~CanRun(d) THEN [db |-> d, raised |-> TRUE]
             ELSE IF lost \/ ~CopyAccepts(Begun(d).work, f)
                  THEN [db |-> Aborted(Begun(d)), raised |-> TRUE]
             ELSE [db |-> Commit([Begun(d) EXCEPT !.work = CopyInto(Begun(d).work, f)]),
                   raised |-> FALSE]

\* The mutant: the two close() calls are at the end of the try block.
bulk_load_close_in_try(db, f, lost) ==
    LET r == CopyAndCommit(db, f, lost)
    IN  IF r.raised THEN Failed(r.db, "main") ELSE Close(r.db)

\* The mutant: commit() is in the finally block.
bulk_load_commit_in_finally(db, f, lost) ==
    LET r == CopyAndCommit(db, f, lost)
    IN  IF r.raised THEN Close(Commit(Failed(r.db, "main"))) ELSE Close(r.db)

\* main(), the try/except/finally of the bulk load
bulk_load(db, f, lost) ==
    LET r == CopyAndCommit(db, f, lost)
    IN  Close(IF r.raised THEN Failed(r.db, "main") ELSE r.db)

-----------------------------------------------------------------------------
(* The object store *)

\* upload_file_to_s3 / fetch_csv_from_s3: the destination after the call
\* (src the source, dst what was at the destination, down: the transfer
\* fails), and whether the call failed
Transfer(src, dst, down) ==
    IF ~src.exists \/ down THEN [dst |-> dst, failed |-> TRUE]
    ELSE [dst |-> src, failed |-> FALSE]

-----------------------------------------------------------------------------
(* The process *)

InputCsv == "data/input.csv"
LocalCsv == "data/temp/your-input.csv"
PreCsv == "data/temp/preprocessed-data.csv"
KeyUncleaned == "data/your-input-uncleaned.csv"
KeyCleaned == "data/your-input-cleaned.csv"

Stages == <<"Upload-Raw", "Fetch-Raw", "Preprocess", "Upload-Clean", "Bulk-Load">>

\* the statements of main() after the connection is made, in order
Order == <<"create_table", "upload_raw", "fetch_raw", "preprocess",
           "upload_clean", "bulk_load", "return">>

Following(at) == Order[(CHOOSE k \in 1..Len(Order) : Order[k] = at) + 1]

\* The mutant: a stage that failed is run again.
ThenRetry(at, failed) == IF failed THEN at ELSE Following(at)

\* The mutant: main() returns when a step failed.
ThenReturnOnError(at, failed) == IF failed THEN "return" ELSE Following(at)

\* where main() goes after the step at `at`: the functions return nothing
\* and main() reads nothing back, so whether the step failed plays no part
Then(at, failed) == Following(at)

NotRunning == /\ calls' = calls /\ dateIn' = dateIn /\ dateOut' = dateOut /\ env' = env

\* module level: logging, config.ini, the S3 client, db_config. A missing
\* file or key raises KeyError outside any try.
Import ==
    /\ pc = "import"
    /\ \E configured \in BOOLEAN :
          IF configured THEN pc' = "connect" /\ exitCode' = exitCode
          ELSE pc' = "exit" /\ exitCode' = 1
    /\ UNCHANGED <<started, errors, fs, s3, dbTable, work, txn, conn, cursor, dbLog>>
    /\ NotRunning

\* main(): the paths, makedirs, psycopg2.connect and conn.cursor(), outside
\* any try. connect() raises when the server cannot be reached or refuses;
\* cursor() on the connection just made does not.
Connect ==
    /\ pc = "connect"
    /\ \E reachable \in BOOLEAN :
          IF reachable
          THEN /\ pc' = "create_table"
               /\ conn' = "open"
               /\ cursor' = "open"
               /\ dbLog' = dbLog \o <<"connect", "cursor">>
               /\ exitCode' = exitCode
          ELSE /\ pc' = "exit"
               /\ exitCode' = 1
               /\ UNCHANGED <<conn, cursor, dbLog>>
    /\ UNCHANGED <<started, errors, fs, s3, dbTable, work, txn>>
    /\ NotRunning

CreateTable ==
    /\ pc = "create_table"
    /\ LET db == create_table_if_not_exists(DB, env.createDenied)
       IN  /\ Install(db)
           /\ pc' = Then("create_table", db.errors # errors)
    /\ calls' = calls + 1
    /\ UNCHANGED <<started, fs, s3, exitCode, env, dateIn, dateOut>>

UploadRaw ==
    /\ pc = "upload_raw"
    /\ started' = Append(started, "Upload-Raw")
    /\ \E down \in BOOLEAN :
          LET r == Transfer(fs[InputCsv], s3[KeyUncleaned], down)
          IN  /\ s3' = [s3 EXCEPT ![KeyUncleaned] = r.dst]
              /\ errors' = IF r.failed THEN Append(errors, "upload_file_to_s3") ELSE errors
              /\ pc' = Then("upload_raw", r.failed)
    /\ UNCHANGED <<fs, dbTable, work, txn, conn, cursor, dbLog, exitCode>>
    /\ NotRunning

FetchRaw ==
    /\ pc = "fetch_raw"
    /\ started' = Append(started, "Fetch-Raw")
    /\ \E down \in BOOLEAN :
          LET r == Transfer(s3[KeyUncleaned], fs[LocalCsv], down)
          IN  /\ fs' = [fs EXCEPT ![LocalCsv] = r.dst]
              /\ errors' = IF r.failed THEN Append(errors, "fetch_csv_from_s3") ELSE errors
              /\ pc' = Then("fetch_raw", r.failed)
    /\ UNCHANGED <<s3, dbTable, work, txn, conn, cursor, dbLog, exitCode>>
    /\ NotRunning

Preprocess ==
    /\ pc = "preprocess"
    /\ started' = Append(started, "Preprocess")
    /\ LET r == preprocess_csv(fs[LocalCsv], fs[PreCsv])
       IN  /\ fs' = [fs EXCEPT ![PreCsv] = r.file]
           /\ errors' = errors \o r.log
           /\ pc' = Then("preprocess", r.log # <<>> /\ r.log[Len(r.log)] = "preprocess_csv")
    /\ UNCHANGED <<s3, dbTable, work, txn, conn, cursor, dbLog, exitCode>>
    /\ NotRunning

UploadClean ==
    /\ pc = "upload_clean"
    /\ started' = Append(started, "Upload-Clean")
    /\ \E down \in BOOLEAN :
          LET r == Transfer(fs[PreCsv], s3[KeyCleaned], down)
          IN  /\ s3' = [s3 EXCEPT ![KeyCleaned] = r.dst]
              /\ errors' = IF r.failed THEN Append(errors, "upload_file_to_s3") ELSE errors
              /\ pc' = Then("upload_clean", r.failed)
    /\ UNCHANGED <<fs, dbTable, work, txn, conn, cursor, dbLog, exitCode>>
    /\ NotRunning

BulkLoad ==
    /\ pc = "bulk_load"
    /\ started' = Append(started, "Bulk-Load")
    /\ \E lost \in BOOLEAN :
          LET db == bulk_load(DB, fs[PreCsv], lost)
          IN  /\ Install(db)
              /\ pc' = Then("bulk_load", db.errors # errors)
    /\ UNCHANGED <<fs, s3, exitCode>>
    /\ NotRunning

\* main() returns and the interpreter exits
Return ==
    /\ pc = "return"
    /\ pc' = "exit"
    /\ exitCode' = 0
    /\ UNCHANGED <<started, errors, fs, s3, dbTable, work, txn, conn, cursor, dbLog>>
    /\ NotRunning

\* the tables a run can find
InitialTables == {NoTable, Table(<<>>), Table(<<CopyRow(RowStaleClean)>>), OtherTable}

Idle ==
    /\ started = <<>>
    /\ errors = <<>>
    /\ txn = "idle"
    /\ dbLog = <<>>
    /\ exitCode = -1
    /\ calls = 0

Init ==
    /\ pc = "import"
    /\ Idle
    /\ fs \in {(InputCsv :> a) @@ (LocalCsv :> b) @@ (PreCsv :> c) :
                  a \in InputFiles, b \in {Absent, StaleRaw}, c \in {Absent, StaleClean}}
    /\ s3 \in {(KeyUncleaned :> a) @@ (KeyCleaned :> Absent) : a \in {Absent, StaleRaw}}
    /\ dbTable \in InitialTables
    /\ work = dbTable
    /\ conn = "none"
    /\ cursor = "none"
    /\ env \in {[createDenied |-> b, table0 |-> dbTable] : b \in BOOLEAN}
    /\ dateIn = None
    /\ dateOut = Returned(None, FALSE)

Next ==
    \/ Import
    \/ Connect
    \/ CreateTable
    \/ UploadRaw
    \/ FetchRaw
    \/ Preprocess
    \/ UploadClean
    \/ BulkLoad
    \/ Return

Spec == Init /\ [][Next]_vars

-----------------------------------------------------------------------------
(* convert_date_string on its own: one call on an argument of DateInputs *)

\* the largest day and month numbers written in the arguments
MaxDayIn == 32
MaxMonthIn == 13

DayTexts ==
    {Two(k) : k \in 0..MaxDayIn} \cup {<<Dig(k)>> : k \in 0..9}
        \cup {<<" ", "5">>, <<"2", "0", "2", "1">>, <<>>}
MonthTexts ==
    {Two(k) : k \in 0..MaxMonthIn} \cup {<<"3">>, <<"0", "3", "5">>, <<>>}
YearTexts ==
    {Two(k) : k \in 0..99} \cup {<<"5">>, <<"2", "0", "2", "1">>, <<"2", "1", " ">>}

\* strings day, separator, month, separator, year, and values that are not
\* strings: the missing cell of a data frame, None, a number
DateInputs ==
    {Str(d \o <<sep>> \o m \o <<sep>> \o y) :
        d \in DayTexts, m \in MonthTexts, y \in YearTexts, sep \in {"-", "/"}}
        \cup {Str(<<>>), NaN, None, IntV(50321), FloatV(5, 1)}

Call ==
    /\ pc = "call"
    /\ pc' = "returned"
    /\ dateOut' = convert_date_string(dateIn)
    /\ UNCHANGED <<started, errors, fs, s3, dbTable, work, txn, conn, cursor,
                   dbLog, exitCode, env, calls, dateIn>>

InitDate ==
    /\ pc = "call"
    /\ Idle
    /\ fs = (InputCsv :> Absent) @@ (LocalCsv :> Absent) @@ (PreCsv :> Absent)
    /\ s3 = (KeyUncleaned :> Absent) @@ (KeyCleaned :> Absent)
    /\ dbTable = NoTable
    /\ work = NoTable
    /\ conn = "none"
    /\ cursor = "none"
    /\ env = [createDenied |-> FALSE, table0 |-> NoTable]
    /\ dateIn \in DateInputs
    /\ dateOut = Returned(None, FALSE)

NextDate == Call

SpecDate == InitDate /\ [][NextDate]_vars

-----------------------------------------------------------------------------
(* create_table_if_not_exists on its own: called again and again on one    *)
(* connection, from any state of the database                              *)

\* the number of calls made
MaxCalls == 2
\* the most rows your_table holds at the start
MaxTableRows == 2

\* rows a table can hold: those the bulk load takes from one-row inputs
LoadableRows ==
    {CopyRow(preprocess_csv(File(Header, <<r>>), Absent).file.rows[1]) :
        r \in {x \in RowPool \cup {RowStaleRaw} :
                 CopyAccepts(Table(<<>>), preprocess_csv(File(Header, <<x>>), Absent).file)}}

AnyTable ==
    {NoTable, OtherTable} \cup {Table(r) : r \in SeqsUpTo(LoadableRows, MaxTableRows)}

CallCreateTable ==
    /\ pc = "create_table"
    /\ calls < MaxCalls
    /\ Install(create_table_if_not_exists(DB, env.createDenied))
    /\ calls' = calls + 1
    /\ UNCHANGED <<pc, started, fs, s3, exitCode, env, dateIn, dateOut>>

InitTable ==
    /\ pc = "create_table"
    /\ Idle
    /\ fs = (InputCsv :> Absent) @@ (LocalCsv :> Absent) @@ (PreCsv :> Absent)
    /\ s3 = (KeyUncleaned :> Absent) @@ (KeyCleaned :> Absent)
    /\ dbTable \in AnyTable
    /\ work = dbTable
    /\ conn = "open"
    /\ cursor = "open"
    /\ env \in {[createDenied |-> b, table0 |-> dbTable] : b \in BOOLEAN}
    /\ dateIn = None
    /\ dateOut = Returned(None, FALSE)

NextTable == CallCreateTable

SpecTable == InitTable /\ [][NextTable]_vars

-----------------------------------------------------------------------------
(* Properties *)

IsPrefix(s, q) == Len(s) <= Len(q) /\ s = SubSeq(q, 1, Len(s))
Has(log, x) == \E i \in 1..Len(log) : log[i] = x
Count(log, x) == Cardinality({i \in 1..Len(log) : log[i] = x})
Returned0 == pc = "return" \/ (pc = "exit" /\ exitCode = 0)

\* the number of stages started when main() is at a statement
StartedBefore(at) ==
    CASE at = "fetch_raw" -> 1
      [] at = "preprocess" -> 2
      [] at = "upload_clean" -> 3
      [] at = "bulk_load" -> 4
      [] at = "return" -> 5
      [] OTHER -> 0

\* C1: the stages are started in the order Upload-Raw, Fetch-Raw,
\* Preprocess, Upload-Clean, Bulk-Load, each at most once and each only when
\* main() has come to it (so after the stage before has returned): what has
\* been started is at every moment the first stages of that order, none
\* left out or started again, and it is all five when main() returns. (A
\* run that main() leaves by an exception of connect, see C3, starts none.)
C1_StagesInOrder ==
    /\ IsPrefix(started, Stages)
    /\ pc # "exit" => Len(started) = StartedBefore(pc)
    /\ Returned0 => started = Stages
    /\ (pc = "exit" /\ exitCode # 0) => started = <<>>

C1_Witness ==
    /\ pc = "exit"
    /\ exitCode = 0
    /\ started = Stages
    /\ Has(errors, "fetch_csv_from_s3")

\* C2: a step that records a failure (create_table_if_not_exists or one of
\* the first four stages) is followed by the next step all the same: main()
\* goes on to the statement after it, whatever failed before, so every
\* later stage is started.
C2_FailureDoesNotStop ==
    [][(pc \in {"create_table", "upload_raw", "fetch_raw", "preprocess", "upload_clean"}
          /\ errors' # errors)
        => pc' = Following(pc)]_vars

\* all five stages were started though table creation, the first upload and
\* the fetch failed, and what was cleaned, uploaded and loaded is the file an
\* earlier run left behind, not the input
C2_Witness ==
    /\ started = Stages
    /\ fs[InputCsv] = File(Header, <<RowExample>>)
    /\ Has(errors, "upload_file_to_s3")
    /\ Has(errors, "fetch_csv_from_s3")
    /\ ~Has(errors, "main")
    /\ s3[KeyCleaned] = StaleClean
    /\ env.table0 = Table(<<>>)
    /\ dbTable = Table(<<CopyRow(RowStaleClean)>>)

\* C3 (as claimed): whatever fails, the process exits with status 0.
C3_AlwaysExitsSuccessfully == pc = "exit" => exitCode = 0

\* C4: the connection and the cursor are made once; when main() has ended
\* with the connection made, both are closed, whichever step failed; nothing
\* is done on the connection after the close.
C4_ConnectionClosed ==
    /\ Count(dbLog, "connect") <= 1
    /\ Count(dbLog, "cursor") <= 1
    /\ (conn # "none" /\ (pc \in {"return", "exit"}))
          => (conn = "closed" /\ cursor = "closed")
    /\ \A i \in 1..Len(dbLog) : dbLog[i] = "conn_close" => i = Len(dbLog)
    /\ conn = "none" => dbLog = <<>>

\* every step from the table creation to the bulk load failed, and the
\* connection is closed
C4_Witness ==
    /\ pc = "exit"
    /\ conn = "closed"
    /\ cursor = "closed"
    /\ errors = <<"create_table_if_not_exists", "upload_file_to_s3",
                  "fetch_csv_from_s3", "preprocess_csv", "upload_file_to_s3", "main">>

\* what the step appended to the connection's log
Appended == SubSeq(dbLog', Len(dbLog) + 1, Len(dbLog'))

\* C5: the bulk load commits only after the whole copy succeeded. A bulk
\* load that fails (no file, a rejected row, a transaction that the failed
\* table creation left aborted, a lost server) issues no commit, leaves the
\* committed table as it was before the stage and closes the connection; one
\* that succeeds commits the table with every row of the file added.
C5_BulkLoadAtomic ==
    [][pc = "bulk_load" =>
         /\ conn' = "closed" /\ cursor' = "closed"
         /\ IF errors' # errors
            THEN /\ dbTable' = dbTable
                 /\ ~Has(Appended, "commit")
            ELSE /\ dbTable' = CopyInto(dbTable, fs[PreCsv])
                 /\ Appended = <<"copy", "commit", "cursor_close", "conn_close">>]_vars

\* a row of the cleaned file was rejected after an earlier row was read: the
\* table holds what it held
C5_Witness ==
    /\ pc = "return"
    /\ errors # <<>> /\ errors[Len(errors)] = "main"
    /\ ~Has(errors, "create_table_if_not_exists")
    /\ Len(fs[PreCsv].rows) = 2
    /\ CopyAccepts(Table(<<>>), File(Header, <<fs[PreCsv].rows[1]>>))
    /\ ~CopyAccepts(Table(<<>>), fs[PreCsv])
    /\ Has(dbLog, "copy")
    /\ conn = "closed"
    /\ dbTable = Table(<<CopyRow(RowStaleClean)>>)

\* the value a cell of the input has in its column
InputValue(j, cell) ==
    IF Columns[j].ty = "DATE"
    THEN LET c == convert_date_string(Str(cell)).val
         IN  IF c.t = "str" THEN CopyField(Columns[j], c.s) ELSE Null
    ELSE CopyField(Columns[j], cell)

ExpectedRows(f) ==
    [i \in 1..Len(f.rows) |-> [j \in 1..Len(Columns) |-> InputValue(j, f.rows[i][j])]]

\* C6 (as claimed): after a run in which nothing failed, on a table that was
\* empty or absent, the table holds one row per data row of the input, in
\* order, each with the ten input values, the two dates in year-month-day
\* form.
C6_LoadedRowsAreInputRows ==
    (/\ pc = "exit" /\ exitCode = 0
     /\ errors = <<>>
     /\ env.table0 \in {NoTable, Table(<<>>)})
        => dbTable = Table(ExpectedRows(fs[InputCsv]))

HasDateColumns(f) ==
    f.exists /\ ColIndex(f.header, "Join Date") # 0
             /\ ColIndex(f.header, "Last Payment Date") # 0

\* C7 (as claimed): once preprocess_csv has run on a file with the two date
\* columns, the output has the same header, as many data rows, and the same
\* text in every cell outside the two date columns.
C7_NonDateColumnsKept ==
    ((pc \in {"upload_clean", "bulk_load", "return"} \/ (pc = "exit" /\ exitCode = 0))
      /\ HasDateColumns(fs[LocalCsv]))
        => /\ fs[PreCsv].exists
           /\ fs[PreCsv].header = fs[LocalCsv].header
           /\ Len(fs[PreCsv].rows) = Len(fs[LocalCsv].rows)
           /\ \A i \in 1..Len(fs[LocalCsv].rows) :
                 \A j \in 1..Len(fs[LocalCsv].header) :
                    fs[LocalCsv].header[j] \notin {"Join Date", "Last Payment Date"}
                       => fs[PreCsv].rows[i][j] = fs[LocalCsv].rows[i][j]

\* dd-mm-yy: two digits each, a day that the month of that year has
IsDdMmYy(v) ==
    /\ v.t = "str"
    /\ Len(v.s) = 8
    /\ v.s[3] = "-" /\ v.s[6] = "-"
    /\ \A i \in {1, 2, 4, 5, 7, 8} : IsDigit(v.s[i])
    /\ LET dd == DigitsVal(SubSeq(v.s, 1, 2))
           mm == DigitsVal(SubSeq(v.s, 4, 5))
           yy == DigitsVal(SubSeq(v.s, 7, 8))
       IN  /\ mm \in 1..12
           /\ dd >= 1
           /\ dd <= DaysInMonth((IF yy <= 68 THEN 2000 ELSE 1900) + yy, mm)

\* the same digits rearranged: century, yy, "-", mm, "-", dd
IsoOfDdMmYy(s) ==
    (IF DigitsVal(SubSeq(s, 7, 8)) <= 68 THEN <<"2", "0">> ELSE <<"1", "9">>)
        \o SubSeq(s, 7, 8) \o <<"-">> \o SubSeq(s, 4, 5) \o <<"-">> \o SubSeq(s, 1, 2)

\* C8: for a string dd-mm-yy that is a date of the calendar,
\* convert_date_string returns yyyy-mm-dd with the same day and month and
\* the year 20yy for yy up to 68, 19yy from 69.
C8_ValidDateNormalised ==
    (pc = "returned" /\ IsDdMmYy(dateIn))
        => dateOut = Returned(Str(IsoOfDdMmYy(dateIn.s)), FALSE)

C8_Witness ==
    /\ pc = "returned"
    /\ dateIn = Str(<<"0", "5", "-", "0", "3", "-", "2", "1">>)
    /\ dateOut.val = Str(<<"2", "0", "2", "1", "-", "0", "3", "-", "0", "5">>)

\* a day, a month and a two-digit year separated by "-" that are a date of
\* the calendar: the day and the month in one or two digits (the day also as
\* a digit after a space)
IsDayMonthYear(v) ==
    /\ v.t = "str"
    /\ LET s == v.s
           dashes == {i \in 1..Len(s) : s[i] = "-"}
       IN  /\ Cardinality(dashes) = 2
           /\ LET p == CHOOSE i \in dashes : \A k \in dashes : i <= k
                  q == CHOOSE i \in dashes : \A k \in dashes : i >= k
                  day == SubSeq(s, 1, p - 1)
                  month == SubSeq(s, p + 1, q - 1)
                  year == SubSeq(s, q + 1, Len(s))
                  digits == IF day # <<>> /\ day[1] = " " THEN Tail(day) ELSE day
              IN  /\ Len(day) \in {1, 2} /\ AllDigits(digits)
                  /\ Len(month) \in {1, 2} /\ AllDigits(month)
                  /\ Len(year) = 2 /\ AllDigits(year)
                  /\ DigitsVal(month) \in 1..12
                  /\ DigitsVal(digits) >= 1
                  /\ DigitsVal(digits) <=
                        DaysInMonth((IF DigitsVal(year) <= 68 THEN 2000 ELSE 1900)
                                       + DigitsVal(year), DigitsVal(month))

\* C9: for an argument that is not a day-month-two-digit-year date (another
\* separator or order of fields, a day or month the calendar does not have,
\* the empty string, a value that is not a string), convert_date_string
\* returns None, logs the error and lets no exception out.
C9_InvalidDateGivesNone ==
    (pc = "returned" /\ ~IsDayMonthYear(dateIn))
        => dateOut = Returned(None, TRUE)

\* the missing cell of a data frame (a float, not a string) came back as None
C9_Witness ==
    /\ pc = "returned"
    /\ dateIn = NaN
    /\ dateOut.val = None
    /\ ~dateOut.raised

\* C10 (as claimed): from any state of the database, the second call
\* records no error and leaves the database as the first did, with your_table
\* there with its ten columns.
C10_SecondCallNoError ==
    [][(calls = 1 /\ calls' = 2)
        => /\ errors' = errors
           /\ dbTable' = dbTable
           /\ dbTable'.kind = "fixed"]_vars

\* C10 (amended): a call never touches the rows of your_table and creates
\* the table with the ten columns only when none of that name is there; a
\* call after the first leaves the database as the first left it and
\* records an error only if the first did; a call that records no error has
\* committed when it returns.
C10_Idempotent ==
    [][calls' = calls + 1 =>
         /\ dbTable'.rows = dbTable.rows
         /\ dbTable'.kind =
               (IF errors' = errors /\ dbTable.kind = "absent" THEN "fixed"
                ELSE dbTable.kind)
         /\ calls >= 1 =>
               /\ dbTable' = dbTable
               /\ txn' = txn
               /\ errors = <<>> => errors' = <<>>
               /\ errors # <<>> => errors' # errors
         /\ errors' = errors =>
               /\ Appended = <<"execute", "commit">>
               /\ txn' = "idle"
               /\ dbTable' = work']_vars

\* two calls, no error, on a database that had no your_table: the table is
\* there once, empty
C10_Witness ==
    /\ calls = 2
    /\ errors = <<>>
    /\ env.table0 = NoTable
    /\ dbTable = Table(<<>>)
    /\ txn = "idle"

====
